---- MODULE Spec2Model ----
(***************************************************************************)
(* A model of mcp_resource_server/resources.py: the resize-dimension       *)
(* calculation, the quality validation and the resource operations that    *)
(* compose them with the blob store.                                       *)
(*                                                                         *)
(* Optional arguments (int | None) are sequences of length at most one:    *)
(* None is <<>> and the integer n is <<n>>.                                *)
(***************************************************************************)
EXTENDS Integers, Sequences, FiniteSets, TLC

VARIABLES
    pc,             \* "call": the arguments are chosen, "done": the call returned
    call,           \* the operation invoked and its arguments
    ret,            \* what the call returned or raised
    effects,        \* the low-level steps the call performed, in order
    files,          \* the storage volume: blob_id -> bytes
    metadata,       \* the store's metadata records: blob_id -> record
    _blob_storage,  \* the module-level storage handle (None until first use)
    now             \* the clock the store reads when it mints an identifier

vars == <<pc, call, ret, effects, files, metadata, _blob_storage, now>>

(***************************************************************************)
(* Program constants.                                                      *)
(***************************************************************************)
DEFAULT_MAX_DIMENSION == 1920
DEFAULT_MAX_HEIGHT == 1080
DEFAULT_JPEG_QUALITY == 85
MIN_JPEG_QUALITY == 1
MAX_JPEG_QUALITY == 100

None == <<>>
Some(n) == <<n>>
Val(x) == x[1]

(***************************************************************************)
(* Bounds of the model.                                                    *)
(***************************************************************************)
MaxDim == 12
MaxBound == 8
QualitySpan == 4

\* Sizes beyond the small range: the sizes of the documented scenarios, the
\* default bounding box and its neighbours, and sizes at which the double
\* arithmetic of the scale is inexact.
NotableDims == {22, 49, 90, 1080, 1536, 1920, 1921, 2048}
NotableBounds == {15, 768, 1024, 1080, 1920}

Dims == (1 .. MaxDim) \cup NotableDims
Bounds == {None, Some(0)} \cup {Some(n) : n \in (1 .. MaxBound) \cup NotableBounds}
Qualities == {None} \cup {Some(q) : q \in (0 - QualitySpan) .. (MAX_JPEG_QUALITY + QualitySpan)}

(***************************************************************************)
(* Python's float arithmetic, as _calculate_resize_dimensions uses it:     *)
(* a / b is the IEEE-754 double nearest the quotient, h * scale the double *)
(* nearest the product, and int() truncates.  FloatMulDivInt(h, a, b) is   *)
(* int(h * (a / b)) for integers h >= 0, a >= 0, b >= 1, computed exactly  *)
(* with integers: the result is floor(h*a/b) unless h*a/b is an integer x  *)
(* and the quotient was rounded down far enough for the product to round   *)
(* below x, in which case it is x - 1.                                     *)
(***************************************************************************)
Pow2(n) == IF n <= 0 THEN 1 ELSE 2 ^ n

\* floor(log2(a / b)) for a, b >= 1
RECURSIVE FloorLog2Up(_, _, _)
FloorLog2Up(a, b, i) == IF b * Pow2(i + 1) <= a THEN FloorLog2Up(a, b, i + 1) ELSE i
RECURSIVE FloorLog2Down(_, _, _)
FloorLog2Down(a, b, i) == IF a * Pow2(0 - i) < b THEN FloorLog2Down(a, b, i - 1) ELSE i
FloorLog2(a, b) == IF a >= b THEN FloorLog2Up(a, b, 0) ELSE FloorLog2Down(a, b, 0)

\* (t * 2^k) mod b, eight doublings at a time (t < b < 2^23)
RECURSIVE DoubleMod(_, _, _)
DoubleMod(t, b, k) ==
    IF k = 0 THEN t
    ELSE IF k >= 8 THEN DoubleMod((256 * t) % b, b, k - 8)
    ELSE DoubleMod((2 * t) % b, b, k - 1)

FloatMulDivInt(h, a, b) ==
    IF a = 0 \/ h = 0 THEN 0
    ELSE IF (h * a) % b # 0 THEN (h * a) \div b
    ELSE LET x == (h * a) \div b
             i == FloorLog2(a, b)
             \* the quotient's 53-bit significand is round(a * 2^(52-i) / b);
             \* t is what the division leaves over
             t == DoubleMod(a % b, b, 52 - i)
             j == FloorLog2(x, 1)
             p == IF x = Pow2(j) THEN 1 ELSE 0
             e == j - i - 1 - p
             lhs == IF e >= 0 THEN h * t ELSE h * t * Pow2(0 - e)
             rhs == IF e >= 0 THEN b * Pow2(e) ELSE b
         IN  IF t = 0 \/ 2 * t > b THEN x
             ELSE IF lhs > rhs THEN x - 1 ELSE x

Max(a, b) == IF a >= b THEN a ELSE b

(***************************************************************************)
(* _calculate_resize_dimensions                                            *)
(***************************************************************************)
effective_max_width_default_when_omitted(original_width, max_width, max_height) ==
    IF max_width = None THEN DEFAULT_MAX_DIMENSION
    ELSE IF Val(max_width) = 0 THEN original_width ELSE Val(max_width)

effective_max_width(original_width, max_width, max_height) ==
    IF max_width = None /\ max_height = None THEN DEFAULT_MAX_DIMENSION
    ELSE IF max_width = None THEN original_width
    ELSE IF max_height = None
         THEN (IF Val(max_width) # 0 THEN Val(max_width) ELSE original_width)
    ELSE (IF Val(max_width) = 0 THEN original_width ELSE Val(max_width))

effective_max_height_square_default(original_height, max_width, max_height) ==
    IF max_width = None /\ max_height = None THEN DEFAULT_MAX_DIMENSION
    ELSE IF max_height = None THEN original_height
    ELSE IF Val(max_height) = 0 THEN original_height ELSE Val(max_height)

effective_max_height_zero_literal(original_height, max_width, max_height) ==
    IF max_width = None /\ max_height = None THEN DEFAULT_MAX_HEIGHT
    ELSE IF max_width = None
         THEN (IF Val(max_height) # 0 THEN Val(max_height) ELSE original_height)
    ELSE IF max_height = None THEN original_height
    ELSE Val(max_height)

effective_max_height(original_height, max_width, max_height) ==
    IF max_width = None /\ max_height = None THEN DEFAULT_MAX_HEIGHT
    ELSE IF max_width = None
         THEN (IF Val(max_height) # 0 THEN Val(max_height) ELSE original_height)
    ELSE IF max_height = None THEN original_height
    ELSE (IF Val(max_height) = 0 THEN original_height ELSE Val(max_height))

\* "Check if resize needed (never upscale)"
fits_strict(original_width, original_height, emw, emh) ==
    original_width < emw /\ original_height < emh
fits(original_width, original_height, emw, emh) ==
    original_width <= emw /\ original_height <= emh

scale_of_max(original_width, original_height, emw, emh) ==
    IF emw * original_height >= emh * original_width
    THEN <<emw, original_width>>
    ELSE <<emh, original_height>>

\* scale = min(width_ratio, height_ratio), kept as the fraction it rounds:
\* the two quotients are ordered as the doubles they round to.
scale_of(original_width, original_height, emw, emh) ==
    IF emw * original_height <= emh * original_width
    THEN <<emw, original_width>>
    ELSE <<emh, original_height>>

scaled_unclamped(extent, scale) == FloatMulDivInt(extent, scale[1], scale[2])
scaled_rounding_up(extent, scale) == Max(1, FloatMulDivInt(extent, scale[1], scale[2]) + 1)
scaled(extent, scale) == Max(1, FloatMulDivInt(extent, scale[1], scale[2]))

resize_zero_literal(original_width, original_height, max_width, max_height) ==
    LET emw == IF max_width = None
               THEN (IF max_height = None THEN DEFAULT_MAX_DIMENSION ELSE original_width)
               ELSE Val(max_width)
        emh == IF max_height = None
               THEN (IF max_width = None THEN DEFAULT_MAX_HEIGHT ELSE original_height)
               ELSE Val(max_height)
    IN  IF fits(original_width, original_height, emw, emh)
        THEN <<original_width, original_height, FALSE>>
        ELSE LET scale == scale_of(original_width, original_height, emw, emh)
             IN  <<scaled(original_width, scale), scaled(original_height, scale), TRUE>>

_calculate_resize_dimensions_zero_as_omitted(original_width, original_height, max_width, max_height) ==
    resize_zero_literal(original_width, original_height,
                        IF max_width = Some(0) THEN None ELSE max_width,
                        IF max_height = Some(0) THEN None ELSE max_height)

_calculate_resize_dimensions(original_width, original_height, max_width, max_height) ==
    IF max_width = Some(0) /\ max_height = Some(0)
    THEN <<original_width, original_height, FALSE>>
    ELSE LET emw == effective_max_width(original_width, max_width, max_height)
             emh == effective_max_height(original_height, max_width, max_height)
         IN  IF fits(original_width, original_height, emw, emh)
             THEN <<original_width, original_height, FALSE>>
             ELSE LET scale == scale_of(original_width, original_height, emw, emh)
                  IN  <<scaled(original_width, scale),
                        scaled(original_height, scale), TRUE>>

(***************************************************************************)
(* _validate_quality: "ok", or the quality error.                          *)
(***************************************************************************)
quality_out_of_range_strict(quality) ==
    quality # None /\ (Val(quality) <= MIN_JPEG_QUALITY \/ Val(quality) >= MAX_JPEG_QUALITY)
quality_out_of_range(quality) ==
    quality # None /\ (Val(quality) < MIN_JPEG_QUALITY \/ Val(quality) > MAX_JPEG_QUALITY)

_validate_quality(quality) ==
    IF quality_out_of_range(quality) THEN "quality must be between" ELSE "ok"

(***************************************************************************)
(* The store as constructed, before any upload.                            *)
(***************************************************************************)
EmptyStore ==
    /\ files = <<>>
    /\ metadata = <<>>
    /\ _blob_storage = None
    /\ now = 0

(***************************************************************************)
(* SpecResize: _calculate_resize_dimensions on every size and every pair   *)
(* of bounds of the model.                                                 *)
(***************************************************************************)
InitResize ==
    /\ pc = "call"
    /\ \E ow \in Dims, oh \in Dims, mw \in Bounds, mh \in Bounds :
          call = [op |-> "_calculate_resize_dimensions",
                  original_width |-> ow, original_height |-> oh,
                  max_width |-> mw, max_height |-> mh]
    /\ ret = None
    /\ effects = <<>>
    /\ EmptyStore

CalculateResizeDimensions ==
    /\ pc = "call"
    /\ call.op = "_calculate_resize_dimensions"
    /\ ret' = _calculate_resize_dimensions(call.original_width, call.original_height,
                                           call.max_width, call.max_height)
    /\ pc' = "done"
    /\ UNCHANGED <<call, effects, files, metadata, _blob_storage, now>>

NextResize == CalculateResizeDimensions

SpecResize == InitResize /\ [][NextResize]_vars

(***************************************************************************)
(* SpecQuality: _validate_quality on every quality of the model.           *)
(***************************************************************************)
InitQuality ==
    /\ pc = "call"
    /\ \E q \in Qualities : call = [op |-> "_validate_quality", quality |-> q]
    /\ ret = None
    /\ effects = <<>>
    /\ EmptyStore

ValidateQuality ==
    /\ pc = "call"
    /\ call.op = "_validate_quality"
    /\ ret' = _validate_quality(call.quality)
    /\ pc' = "done"
    /\ UNCHANGED <<call, effects, files, metadata, _blob_storage, now>>

NextQuality == ValidateQuality

SpecQuality == InitQuality /\ [][NextQuality]_vars

(***************************************************************************)
(* Properties of _calculate_resize_dimensions (under SpecResize).          *)
(* The bounding box of the policy table is restated here from the          *)
(* specification, with the numbers written out.                            *)
(***************************************************************************)
ResizeDone == pc = "done" /\ call.op = "_calculate_resize_dimensions"
ow == call.original_width
oh == call.original_height
mw == call.max_width
mh == call.max_height

Positive(bound) == bound # None /\ Val(bound) >= 1

\* The policy table: the bound on an axis, given the other axis's argument
BoxBound(extent, bound, other, default) ==
    IF bound = None /\ other = None THEN default
    ELSE IF bound = None \/ bound = Some(0) THEN extent
    ELSE Val(bound)
BoxW == BoxBound(ow, mw, mh, 1920)
BoxH == BoxBound(oh, mh, mw, 1080)

\* scale = min(BoxW / ow, BoxH / oh) as an exact fraction <<numerator, denominator>>
ExactScale == IF BoxW * oh <= BoxH * ow THEN <<BoxW, ow>> ELSE <<BoxH, oh>>
ExactFloor(extent) == (extent * ExactScale[1]) \div ExactScale[2]
Abs(n) == IF n >= 0 THEN n ELSE 0 - n

\* C1: never upscale: when the original fits the effective bounds on both
\* axes, the result is the original size with would_resize = FALSE.
C1_NeverUpscale ==
    (ResizeDone /\ ow <= BoxW /\ oh <= BoxH) => ret = <<ow, oh, FALSE>>

C1_Witness ==
    /\ ResizeDone /\ Positive(mw) /\ Positive(mh)
    /\ ow = Val(mw) /\ oh < Val(mh)
    /\ ret = <<ow, oh, FALSE>>

\* C2: with max_width = 0 and max_height = 0 the result is the original
\* size with would_resize = FALSE, however large the original.
C2_BothZeroDisables ==
    (ResizeDone /\ mw = Some(0) /\ mh = Some(0)) => ret = <<ow, oh, FALSE>>

C2_Witness ==
    /\ ResizeDone /\ mw = Some(0) /\ mh = Some(0)
    /\ ow = 2048 /\ oh = 1536
    /\ ret = <<2048, 1536, FALSE>>

\* C3: on every resize, with s = min(eff_w/orig_w, eff_h/orig_h), new_w
\* differs from orig_w*s by less than one pixel and new_h from orig_h*s by
\* less than one pixel.
C3_AspectWithinOnePixel ==
    (ResizeDone /\ ret[3]) =>
        /\ Abs(ret[1] * ExactScale[2] - ow * ExactScale[1]) < ExactScale[2]
        /\ Abs(ret[2] * ExactScale[2] - oh * ExactScale[1]) < ExactScale[2]

\* C4: with max_width = N >= 1 and max_height = M >= 1 the returned
\* dimensions fit the box: new_w <= N and new_h <= M.
C4_FitsBoundingBox ==
    (ResizeDone /\ Positive(mw) /\ Positive(mh)) =>
        ret[1] <= Val(mw) /\ ret[2] <= Val(mh)

C4_Witness ==
    /\ ResizeDone /\ Positive(mw) /\ Positive(mh)
    /\ ow > Val(mw) /\ oh > Val(mh)
    /\ ret[3] /\ ret[1] < Val(mw) /\ ret[2] = Val(mh)

\* C5: with both bounds omitted the result is that of max_width = 1920 and
\* max_height = 1080: no resize iff orig_w <= 1920 and orig_h <= 1080,
\* otherwise the result fits in 1920 x 1080.
C5_DefaultBox ==
    (ResizeDone /\ mw = None /\ mh = None) =>
        /\ ret = _calculate_resize_dimensions(ow, oh, Some(1920), Some(1080))
        /\ (~ret[3]) <=> (ow <= 1920 /\ oh <= 1080)
        /\ ret[3] => (ret[1] <= 1920 /\ ret[2] <= 1080)
        /\ (~ret[3]) => (ret[1] = ow /\ ret[2] = oh)

C5_Witness ==
    /\ ResizeDone /\ mw = None /\ mh = None
    /\ ow = 2048 /\ oh = 1536
    /\ ret = <<1440, 1080, TRUE>>

\* C6: when exactly one bound is omitted and the other is N >= 1, a resize
\* happens iff the original extent on the given axis exceeds N, the scale is
\* N over that extent alone, and both axes are scaled by it; 2048x1536 with
\* max_width omitted and max_height = 768 gives (1024, 768, True).
C6_OmittedAxisUnconstrained ==
    /\ (ResizeDone /\ mw = None /\ Positive(mh)) =>
          /\ ret[3] <=> (oh > Val(mh))
          /\ ret[3] => ret = <<scaled(ow, <<Val(mh), oh>>),
                               scaled(oh, <<Val(mh), oh>>), TRUE>>
          /\ (~ret[3]) => ret = <<ow, oh, FALSE>>
          /\ (ow = 2048 /\ oh = 1536 /\ mh = Some(768)) => ret = <<1024, 768, TRUE>>
    /\ (ResizeDone /\ mh = None /\ Positive(mw)) =>
          /\ ret[3] <=> (ow > Val(mw))
          /\ ret[3] => ret = <<scaled(ow, <<Val(mw), ow>>),
                               scaled(oh, <<Val(mw), ow>>), TRUE>>
          /\ (~ret[3]) => ret = <<ow, oh, FALSE>>

C6_Witness ==
    /\ ResizeDone /\ mw = None /\ mh = Some(768)
    /\ ow = 2048 /\ oh = 1536
    /\ ret = <<1024, 768, TRUE>>

\* C7: when exactly one bound is 0 and the other is N >= 1, the result is
\* the same triple as when the zeroed bound is omitted.
C7_ZeroAxisIsOmittedAxis ==
    /\ (ResizeDone /\ mw = Some(0) /\ Positive(mh)) =>
          ret = _calculate_resize_dimensions(ow, oh, None, mh)
    /\ (ResizeDone /\ mh = Some(0) /\ Positive(mw)) =>
          ret = _calculate_resize_dimensions(ow, oh, mw, None)

C7_Witness ==
    /\ ResizeDone /\ mw = Some(0) /\ mh = Some(768)
    /\ ow = 2048 /\ oh = 1536
    /\ ret = <<1024, 768, TRUE>>

\* C8: when the original exceeds an effective bound the result is
\* (max(1, floor(orig_w*scale)), max(1, floor(orig_h*scale)), True) with
\* scale = min(eff_w/orig_w, eff_h/orig_h); 2048x1536 with max_width = 1024
\* and max_height = 1024 gives (1024, 768, True).
C8_ScaledFloor ==
    /\ (ResizeDone /\ (ow > BoxW \/ oh > BoxH)) =>
          ret = <<Max(1, ExactFloor(ow)), Max(1, ExactFloor(oh)), TRUE>>
    /\ (ResizeDone /\ ow = 2048 /\ oh = 1536 /\ mw = Some(1024) /\ mh = Some(1024)) =>
          ret = <<1024, 768, TRUE>>

(***************************************************************************)
(* Properties of _validate_quality (under SpecQuality).                    *)
(***************************************************************************)
QualityDone == pc = "done" /\ call.op = "_validate_quality"

\* C9: _validate_quality accepts exactly an omitted quality or an integer
\* within 1..100: 0 and 101 fail with the quality error, 1, 100 and None pass.
C9_QualityRange ==
    QualityDone =>
        /\ (ret = "ok") <=> (call.quality = None \/ Val(call.quality) \in 1 .. 100)
        /\ (ret # "ok") => ret = "quality must be between"
        /\ call.quality \in {Some(0), Some(101)} => ret = "quality must be between"
        /\ call.quality \in {Some(1), Some(100), None} => ret = "ok"

C9_Witness ==
    /\ QualityDone
    /\ call.quality = Some(101)
    /\ ret = "quality must be between"

(***************************************************************************)
(* Bytes.  A byte string is described by what the program can observe of   *)
(* it: whether it is empty, whether PIL can decode it and then its format  *)
(* and size, which picture it shows and how it was encoded.                *)
(***************************************************************************)
Bytes(kind, format, width, height, enc, pic) ==
    [kind |-> kind, format |-> format, width |-> width, height |-> height,
     enc |-> enc, pic |-> pic]

EmptyBytes == Bytes("empty", "", 0, 0, 0, 0)
TextBytes == Bytes("raw", "", 0, 0, 0, 1)
PngBytes == Bytes("img", "png", 8, 6, 0, 2)
JpegBytes == Bytes("img", "jpeg", 2048, 2, 0, 3)

UploadData == {EmptyBytes, TextBytes, PngBytes}
Filenames == {"", "a.png", "b.jpg", "c.txt", "d"}
UploadNames == {"", "a.png", "d"}

\* The (max_width, max_height) pairs and the qualities the operations are called with
StoreBounds == {<<None, None>>, <<Some(0), Some(0)>>, <<Some(4), None>>}
StoreQualities == {None, Some(50), Some(101)}
TtlHours == {None, Some(1)}

MaxBlobs == 1
MaxTime == 2

(***************************************************************************)
(* What a call returns or raises.                                          *)
(***************************************************************************)
NoValue == [none |-> TRUE]
Returned(value) == [ok |-> TRUE, raised |-> "", error |-> "", value |-> value]
Raised(exception, message) ==
    [ok |-> FALSE, raised |-> exception, error |-> message, value |-> NoValue]
ToolError(message) == Raised("ToolError", message)

\* The outcome of a handler: its result, the steps it took, and the state it leaves
Outcome(result, steps, f, m, storage) ==
    [ret |-> result, effects |-> steps, files |-> f, metadata |-> m, storage |-> storage]

(***************************************************************************)
(* The blob store library (mcp_mapped_resource_lib), from the              *)
(* specification: identifiers, paths, metadata, deduplication.             *)
(***************************************************************************)
\* The content hash: distinct contents have distinct digests
sha256(data) == [digest_of |-> data]

BlobId(scheme, ts, hash, ext) == [scheme |-> scheme, ts |-> ts, hash |-> hash, ext |-> ext]
EmptyId == BlobId("", 0, sha256(EmptyBytes), "")
MalformedId == BlobId("not-a-blob-id", 0, sha256(EmptyBytes), "")
GhostId == BlobId("blob", 0, sha256(TextBytes), "pdf")

WellFormed(blob_id) == blob_id.scheme = "blob"

Ext(filename) ==
    CASE filename \in {"a.png", "e.png"} -> "png"
      [] filename = "b.jpg" -> "jpg"
      [] filename = "c.txt" -> "txt"
      [] OTHER -> "bin"

MimeType(ext) ==
    CASE ext = "png" -> Some("image/png")
      [] ext = "jpg" -> Some("image/jpeg")
      [] ext = "txt" -> Some("text/plain")
      [] OTHER -> None

\* len(data)
Size(data) ==
    CASE data.kind = "empty" -> 0
      [] data.kind = "raw" -> 12
      [] OTHER -> 64 + 3 * data.width * data.height

BLOB_STORAGE_TTL_HOURS == 24

\* BlobStorage(...): the handle, holding the configuration it was built with
BlobStorage(default_ttl_hours, enable_deduplication) ==
    Some([default_ttl_hours |-> default_ttl_hours,
          enable_deduplication |-> enable_deduplication])

_get_blob_storage_without_deduplication(storage) ==
    IF storage = None THEN BlobStorage(BLOB_STORAGE_TTL_HOURS, FALSE) ELSE storage

\* _get_blob_storage: the handle after the call
_get_blob_storage(storage) ==
    IF storage = None THEN BlobStorage(BLOB_STORAGE_TTL_HOURS, TRUE) ELSE storage

\* upload_blob: <<result, files, metadata>> after the upload, the result
\* holding blob_id and sha256
\* The stored blobs that are not expired and share the hash and the extension
Duplicates(m, t, data, filename) ==
    {id \in DOMAIN m : /\ m[id].sha256 = sha256(data)
                       /\ id.ext = Ext(filename)
                       /\ t < m[id].expires_at}

upload_blob(storage, f, m, t, data, filename, tags, ttl_hours) ==
    IF Val(storage).enable_deduplication /\ Duplicates(m, t, data, filename) # {}
    THEN <<[blob_id |-> CHOOSE id \in Duplicates(m, t, data, filename) : TRUE,
            sha256 |-> sha256(data)], f, m>>
    ELSE LET id == BlobId("blob", t, sha256(data), Ext(filename))
             record == [blob_id |-> id, filename |-> filename,
                        mime_type |-> MimeType(Ext(filename)),
                        size_bytes |-> Size(data), sha256 |-> sha256(data),
                        created_at |-> t,
                        expires_at |-> t + (IF ttl_hours = None
                                            THEN Val(storage).default_ttl_hours
                                            ELSE Val(ttl_hours)),
                        tags |-> tags]
         IN  <<[blob_id |-> id, sha256 |-> sha256(data)],
               (id :> data) @@ f, (id :> record) @@ m>>

(***************************************************************************)
(* PIL, as the program uses it.                                            *)
(***************************************************************************)
Decodable(data) == data.kind = "img"

\* img.save(format = pil_format, quality = ...): the re-encoded bytes
Encode(data, pil_format, new_width, new_height, quality) ==
    Bytes("img",
          CASE pil_format = "JPEG" -> "jpeg"
            [] pil_format = "GIF" -> "gif"
            [] OTHER -> "png",
          new_width, new_height,
          IF pil_format = "JPEG"
          THEN (IF quality = None \/ quality = Some(0)
                THEN DEFAULT_JPEG_QUALITY ELSE Val(quality))
          ELSE 1,
          data.pic)

\* image_format.upper(), with JPG normalised to JPEG
PilFormat(image_format) ==
    CASE image_format \in {"jpeg", "jpg"} -> "JPEG"
      [] image_format = "gif" -> "GIF"
      [] OTHER -> "PNG"

_resize_image_always_encoding(image_data, image_format, max_width, max_height, quality) ==
    LET dims == _calculate_resize_dimensions(image_data.width, image_data.height,
                                             max_width, max_height)
    IN  [data |-> Encode(image_data, PilFormat(image_format), dims[1], dims[2], quality),
         width |-> dims[1], height |-> dims[2],
         steps |-> <<"PILImage.open", "img.resize", "img.save">>]

\* _resize_image: the bytes returned and the steps taken (the image decodes)
_resize_image(image_data, image_format, max_width, max_height, quality) ==
    LET dims == _calculate_resize_dimensions(image_data.width, image_data.height,
                                             max_width, max_height)
    IN  IF ~dims[3]
        THEN [data |-> image_data, width |-> image_data.width,
              height |-> image_data.height, steps |-> <<"PILImage.open">>]
        ELSE [data |-> Encode(image_data, PilFormat(image_format), dims[1], dims[2], quality),
              width |-> dims[1], height |-> dims[2],
              steps |-> <<"PILImage.open", "img.resize", "img.save">>]

(***************************************************************************)
(* SpecResizeImage: _resize_image on decodable images of several formats   *)
(* and sizes, under every pair of bounds and every quality of the model.   *)
(***************************************************************************)
ImageSizes == {<<1, 1>>, <<8, 6>>, <<2048, 2>>, <<1920, 1080>>, <<2048, 1536>>}
Images == {Bytes("img", format, size[1], size[2], 0, 2) :
              format \in {"png", "jpeg", "gif"}, size \in ImageSizes}
ImageFormats == {"png", "jpeg", "jpg", "gif"}
ImageBounds == {None, Some(0), Some(4), Some(1024), Some(1920)}
ImageQualities == {None, Some(1), Some(50), Some(100)}

InitResizeImage ==
    /\ pc = "call"
    /\ \E image_data \in Images, image_format \in ImageFormats,
          max_width \in ImageBounds, max_height \in ImageBounds,
          quality \in ImageQualities :
          call = [op |-> "_resize_image", image_data |-> image_data,
                  image_format |-> image_format, max_width |-> max_width,
                  max_height |-> max_height, quality |-> quality]
    /\ ret = None
    /\ effects = <<>>
    /\ EmptyStore

ResizeImage ==
    /\ pc = "call"
    /\ call.op = "_resize_image"
    /\ LET result == _resize_image(call.image_data, call.image_format, call.max_width,
                                   call.max_height, call.quality)
       IN  /\ ret' = <<result.data, result.width, result.height>>
           /\ effects' = result.steps
    /\ pc' = "done"
    /\ UNCHANGED <<call, files, metadata, _blob_storage, now>>

NextResizeImage == ResizeImage

SpecResizeImage == InitResizeImage /\ [][NextResizeImage]_vars

\* content_type.split("/")[-1].split(";")[0]
FormatOfMime(content_type) ==
    CASE content_type = "image/png" -> "png"
      [] content_type = "image/jpeg" -> "jpeg"
      [] OTHER -> "plain"

IsImageMime(content_type) ==
    content_type # None /\ Val(content_type) \in {"image/png", "image/jpeg"}

(***************************************************************************)
(* _get_blob_bytes                                                         *)
(***************************************************************************)
BlobRead(result, steps, storage, data, content_type, filename) ==
    [ret |-> result, steps |-> steps, storage |-> storage,
     data |-> data, content_type |-> content_type, filename |-> filename]

_get_blob_bytes_one_handler(blob_id) ==
    IF blob_id = EmptyId
    THEN BlobRead(ToolError("blob_id is required"), <<>>, _blob_storage,
                  EmptyBytes, None, "")
    ELSE IF ~WellFormed(blob_id)
    THEN BlobRead(ToolError("Failed to read blob"), <<"blob_id_to_path">>,
                  _blob_storage, EmptyBytes, None, "")
    ELSE IF blob_id \notin DOMAIN files
    THEN BlobRead(ToolError("Failed to read blob"),
                  <<"blob_id_to_path", "open">>, _blob_storage, EmptyBytes, None, "")
    ELSE IF blob_id \notin DOMAIN metadata
    THEN BlobRead(ToolError("Failed to read blob"),
                  <<"blob_id_to_path", "open", "_get_blob_storage", "get_metadata">>,
                  _get_blob_storage(_blob_storage), EmptyBytes, None, "")
    ELSE BlobRead(Returned(NoValue),
                  <<"blob_id_to_path", "open", "_get_blob_storage", "get_metadata">>,
                  _get_blob_storage(_blob_storage), files[blob_id],
                  metadata[blob_id].mime_type, metadata[blob_id].filename)

_get_blob_bytes(blob_id) ==
    IF blob_id = EmptyId
    THEN BlobRead(ToolError("blob_id is required"), <<>>, _blob_storage,
                  EmptyBytes, None, "")
    ELSE IF ~WellFormed(blob_id)
    THEN BlobRead(ToolError("Invalid blob:// URI format"), <<"blob_id_to_path">>,
                  _blob_storage, EmptyBytes, None, "")
    ELSE IF blob_id \notin DOMAIN files
    THEN BlobRead(ToolError("Blob file missing from shared volume"),
                  <<"blob_id_to_path", "open">>, _blob_storage, EmptyBytes, None, "")
    ELSE IF blob_id \notin DOMAIN metadata
    THEN BlobRead(ToolError("Blob not found in storage"),
                  <<"blob_id_to_path", "open", "_get_blob_storage", "get_metadata">>,
                  _get_blob_storage(_blob_storage), EmptyBytes, None, "")
    ELSE BlobRead(Returned(NoValue),
                  <<"blob_id_to_path", "open", "_get_blob_storage", "get_metadata">>,
                  _get_blob_storage(_blob_storage), files[blob_id],
                  metadata[blob_id].mime_type, metadata[blob_id].filename)

(***************************************************************************)
(* Tool functions.  Each is the outcome of the whole handler in the        *)
(* current state.                                                          *)
(***************************************************************************)
get_file_images_only(blob_id) ==
    LET blob == _get_blob_bytes(blob_id)
    IN  IF ~blob.ret.ok
        THEN Outcome(blob.ret, blob.steps, files, metadata, blob.storage)
        ELSE IF blob.content_type = None \/ Val(blob.content_type) = "text/plain"
        THEN Outcome(ToolError("Blob is not an image"), blob.steps,
                     files, metadata, blob.storage)
        ELSE Outcome(Returned(blob.data), blob.steps, files, metadata, blob.storage)

get_file(blob_id) ==
    LET blob == _get_blob_bytes(blob_id)
    IN  IF ~blob.ret.ok
        THEN Outcome(blob.ret, blob.steps, files, metadata, blob.storage)
        ELSE Outcome(Returned(blob.data), blob.steps, files, metadata, blob.storage)

\* get_image after its quality check
get_image_body(blob_id, max_width, max_height, quality) ==
    LET blob == _get_blob_bytes(blob_id)
    IN  IF ~blob.ret.ok
        THEN Outcome(blob.ret, blob.steps, files, metadata, blob.storage)
        ELSE IF ~IsImageMime(blob.content_type)
        THEN Outcome(ToolError("Blob is not an image"), blob.steps,
                     files, metadata, blob.storage)
        ELSE IF ~Decodable(blob.data)
        THEN Outcome(Raised("UnidentifiedImageError", "cannot identify image file"),
                     blob.steps \o <<"PILImage.open">>, files, metadata, blob.storage)
        ELSE LET image_format == FormatOfMime(Val(blob.content_type))
                 resized == _resize_image(blob.data, image_format,
                                          max_width, max_height, quality)
             IN  Outcome(Returned([data |-> resized.data, format |-> image_format]),
                         blob.steps \o resized.steps, files, metadata, blob.storage)

get_image_validating_late(blob_id, max_width, max_height, quality) ==
    LET body == get_image_body(blob_id, max_width, max_height, quality)
    IN  IF body.ret.ok /\ _validate_quality(quality) # "ok"
        THEN Outcome(ToolError(_validate_quality(quality)), body.effects,
                     files, metadata, body.storage)
        ELSE body

get_image_caching_resized(blob_id, max_width, max_height, quality) ==
    IF _validate_quality(quality) # "ok"
    THEN Outcome(ToolError(_validate_quality(quality)), <<>>,
                 files, metadata, _blob_storage)
    ELSE LET body == get_image_body(blob_id, max_width, max_height, quality)
         IN  IF body.ret.ok
             THEN Outcome(body.ret, body.effects,
                          [files EXCEPT ![blob_id] = body.ret.value.data],
                          metadata, body.storage)
             ELSE body

get_image(blob_id, max_width, max_height, quality) ==
    IF _validate_quality(quality) # "ok"
    THEN Outcome(ToolError(_validate_quality(quality)), <<>>,
                 files, metadata, _blob_storage)
    ELSE get_image_body(blob_id, max_width, max_height, quality)

\* str.lower() on the format names of the model
Lower(text) ==
    CASE text = "JPEG" -> "jpeg"
      [] text = "JPG" -> "jpg"
      [] text = "PNG" -> "png"
      [] OTHER -> text

_estimate_compressed_size_unclamped(original_size, original_width, original_height, new_width, new_height, image_format, quality) ==
    LET original_pixels == original_width * original_height
        new_pixels == new_width * new_height
        estimated == IF original_pixels > 0
                     THEN FloatMulDivInt(original_size, new_pixels, original_pixels)
                     ELSE original_size
    IN  IF Lower(image_format) \in {"jpeg", "jpg"} /\ quality # None /\ quality # Some(0)
        THEN FloatMulDivInt(estimated, Val(quality), 100)
        ELSE estimated

\* _estimate_compressed_size
_estimate_compressed_size(original_size, original_width, original_height, new_width, new_height, image_format, quality) ==
    LET original_pixels == original_width * original_height
        new_pixels == new_width * new_height
        estimated == IF original_pixels > 0
                     THEN FloatMulDivInt(original_size, new_pixels, original_pixels)
                     ELSE original_size
        with_quality == IF Lower(image_format) \in {"jpeg", "jpg"}
                           /\ quality # None /\ quality # Some(0)
                        THEN FloatMulDivInt(estimated, Val(quality), 100)
                        ELSE estimated
    IN  Max(with_quality, 100)

(***************************************************************************)
(* SpecEstimate: _estimate_compressed_size on the sizes, dimensions,       *)
(* formats and qualities of the model.                                     *)
(***************************************************************************)
MaxEstimateDim == 3
EstimateSizes == {0, 1, 99, 100, 101, 150, 1000, 4096}
EstimateDims == 0 .. MaxEstimateDim
EstimateFormats == {"png", "jpeg", "JPG"}
EstimateQualities == {None, Some(0), Some(1), Some(50), Some(85), Some(100)}

InitEstimate ==
    /\ pc = "call"
    /\ \E original_size \in EstimateSizes,
          original_width \in EstimateDims, original_height \in EstimateDims,
          new_width \in EstimateDims, new_height \in EstimateDims,
          image_format \in EstimateFormats, quality \in EstimateQualities :
          call = [op |-> "_estimate_compressed_size", original_size |-> original_size,
                  original_width |-> original_width, original_height |-> original_height,
                  new_width |-> new_width, new_height |-> new_height,
                  image_format |-> image_format, quality |-> quality]
    /\ ret = None
    /\ effects = <<>>
    /\ EmptyStore

EstimateCompressedSize ==
    /\ pc = "call"
    /\ call.op = "_estimate_compressed_size"
    /\ ret' = Some(_estimate_compressed_size(call.original_size, call.original_width,
                                             call.original_height, call.new_width,
                                             call.new_height, call.image_format,
                                             call.quality))
    /\ pc' = "done"
    /\ UNCHANGED <<call, effects, files, metadata, _blob_storage, now>>

NextEstimate == EstimateCompressedSize

SpecEstimate == InitEstimate /\ [][NextEstimate]_vars

get_image_size_estimate_body_swapping_bounds(blob_id, max_width, max_height, quality) ==
    LET blob == _get_blob_bytes(blob_id)
    IN  IF ~blob.ret.ok
        THEN Outcome(blob.ret, blob.steps, files, metadata, blob.storage)
        ELSE IF ~IsImageMime(blob.content_type)
        THEN Outcome(ToolError("File is not an image"), blob.steps,
                     files, metadata, blob.storage)
        ELSE IF ~Decodable(blob.data)
        THEN Outcome(Raised("UnidentifiedImageError", "cannot identify image file"),
                     blob.steps \o <<"PILImage.open">>, files, metadata, blob.storage)
        ELSE LET image_format == FormatOfMime(Val(blob.content_type))
                 dims == _calculate_resize_dimensions(blob.data.width, blob.data.height,
                                                      max_height, max_width)
                 effective_quality == IF quality = None \/ quality = Some(0)
                                      THEN Some(DEFAULT_JPEG_QUALITY) ELSE quality
                 jpeg_quality == IF Lower(image_format) \in {"jpeg", "jpg"}
                                 THEN effective_quality ELSE None
             IN  Outcome(Returned([original_width |-> blob.data.width,
                                   original_height |-> blob.data.height,
                                   estimated_width |-> dims[1],
                                   estimated_height |-> dims[2],
                                   original_size_bytes |-> Size(blob.data),
                                   estimated_size_bytes |->
                                       _estimate_compressed_size(
                                           Size(blob.data), blob.data.width,
                                           blob.data.height, dims[1], dims[2],
                                           image_format, jpeg_quality),
                                   would_resize |-> dims[3],
                                   format |-> image_format,
                                   quality |-> jpeg_quality]),
                         blob.steps \o <<"PILImage.open">>,
                         files, metadata, blob.storage)

\* get_image_size_estimate after its quality check
get_image_size_estimate_body(blob_id, max_width, max_height, quality) ==
    LET blob == _get_blob_bytes(blob_id)
    IN  IF ~blob.ret.ok
        THEN Outcome(blob.ret, blob.steps, files, metadata, blob.storage)
        ELSE IF ~IsImageMime(blob.content_type)
        THEN Outcome(ToolError("File is not an image"), blob.steps,
                     files, metadata, blob.storage)
        ELSE IF ~Decodable(blob.data)
        THEN Outcome(Raised("UnidentifiedImageError", "cannot identify image file"),
                     blob.steps \o <<"PILImage.open">>, files, metadata, blob.storage)
        ELSE LET image_format == FormatOfMime(Val(blob.content_type))
                 dims == _calculate_resize_dimensions(blob.data.width, blob.data.height,
                                                      max_width, max_height)
                 effective_quality == IF quality = None \/ quality = Some(0)
                                      THEN Some(DEFAULT_JPEG_QUALITY) ELSE quality
                 jpeg_quality == IF Lower(image_format) \in {"jpeg", "jpg"}
                                 THEN effective_quality ELSE None
             IN  Outcome(Returned([original_width |-> blob.data.width,
                                   original_height |-> blob.data.height,
                                   estimated_width |-> dims[1],
                                   estimated_height |-> dims[2],
                                   original_size_bytes |-> Size(blob.data),
                                   estimated_size_bytes |->
                                       _estimate_compressed_size(
                                           Size(blob.data), blob.data.width,
                                           blob.data.height, dims[1], dims[2],
                                           image_format, jpeg_quality),
                                   would_resize |-> dims[3],
                                   format |-> image_format,
                                   quality |-> jpeg_quality]),
                         blob.steps \o <<"PILImage.open">>,
                         files, metadata, blob.storage)

get_image_size_estimate(blob_id, max_width, max_height, quality) ==
    IF _validate_quality(quality) # "ok"
    THEN Outcome(ToolError(_validate_quality(quality)), <<>>,
                 files, metadata, _blob_storage)
    ELSE get_image_size_estimate_body(blob_id, max_width, max_height, quality)

get_image_info_decoding_first(blob_id) ==
    LET blob == _get_blob_bytes(blob_id)
    IN  IF ~blob.ret.ok
        THEN Outcome(blob.ret, blob.steps, files, metadata, blob.storage)
        ELSE IF ~Decodable(blob.data)
        THEN Outcome(Raised("UnidentifiedImageError", "cannot identify image file"),
                     blob.steps \o <<"PILImage.open">>, files, metadata, blob.storage)
        ELSE IF ~IsImageMime(blob.content_type)
        THEN Outcome(ToolError("Blob is not an image"), blob.steps \o <<"PILImage.open">>,
                     files, metadata, blob.storage)
        ELSE Outcome(Returned([width |-> blob.data.width, height |-> blob.data.height,
                               format |-> FormatOfMime(Val(blob.content_type)),
                               file_size_bytes |-> Size(blob.data)]),
                     blob.steps \o <<"PILImage.open">>, files, metadata, blob.storage)

get_image_info(blob_id) ==
    LET blob == _get_blob_bytes(blob_id)
    IN  IF ~blob.ret.ok
        THEN Outcome(blob.ret, blob.steps, files, metadata, blob.storage)
        ELSE IF ~IsImageMime(blob.content_type)
        THEN Outcome(ToolError("Blob is not an image"), blob.steps,
                     files, metadata, blob.storage)
        ELSE IF ~Decodable(blob.data)
        THEN Outcome(Raised("UnidentifiedImageError", "cannot identify image file"),
                     blob.steps \o <<"PILImage.open">>, files, metadata, blob.storage)
        ELSE Outcome(Returned([width |-> blob.data.width, height |-> blob.data.height,
                               format |-> FormatOfMime(Val(blob.content_type)),
                               file_size_bytes |-> Size(blob.data)]),
                     blob.steps \o <<"PILImage.open">>, files, metadata, blob.storage)

get_file_info(blob_id) ==
    IF blob_id = EmptyId
    THEN Outcome(ToolError("blob_id is required"), <<>>, files, metadata, _blob_storage)
    ELSE IF ~WellFormed(blob_id)
    THEN Outcome(ToolError("Invalid blob:// URI format"), <<"blob_id_to_path">>,
                 files, metadata, _blob_storage)
    ELSE IF blob_id \notin DOMAIN files
    THEN Outcome(ToolError("Blob file not found"), <<"blob_id_to_path", "os.path.exists">>,
                 files, metadata, _blob_storage)
    ELSE IF blob_id \notin DOMAIN metadata
    THEN Outcome(ToolError("Blob not found in storage"),
                 <<"blob_id_to_path", "os.path.exists", "_get_blob_storage", "get_metadata">>,
                 files, metadata, _get_blob_storage(_blob_storage))
    ELSE Outcome(Returned([blob_id |-> blob_id,
                           filename |-> metadata[blob_id].filename,
                           mime_type |-> metadata[blob_id].mime_type,
                           size_bytes |-> metadata[blob_id].size_bytes]),
                 <<"blob_id_to_path", "os.path.exists", "_get_blob_storage", "get_metadata">>,
                 files, metadata, _get_blob_storage(_blob_storage))

ResourceResponse_expiring_at_creation(result, m) ==
    [success |-> TRUE,
     resource_id |-> result.blob_id,
     filename |-> m[result.blob_id].filename,
     mime_type |-> m[result.blob_id].mime_type,
     size_bytes |-> m[result.blob_id].size_bytes,
     sha256 |-> result.sha256,
     expires_at |-> m[result.blob_id].created_at]

\* The response both uploads build from the upload result and the metadata record
ResourceResponse(result, m) ==
    [success |-> TRUE,
     resource_id |-> result.blob_id,
     filename |-> m[result.blob_id].filename,
     mime_type |-> m[result.blob_id].mime_type,
     size_bytes |-> m[result.blob_id].size_bytes,
     sha256 |-> result.sha256,
     expires_at |-> m[result.blob_id].expires_at]

upload_image_resource_body_format_from_filename(data, filename, max_width, max_height, quality, ttl_hours) ==
    IF data = EmptyBytes
    THEN Outcome(ToolError("data is required and cannot be empty"), <<>>,
                 files, metadata, _blob_storage)
    ELSE IF filename = ""
    THEN Outcome(ToolError("filename is required"), <<>>, files, metadata, _blob_storage)
    ELSE IF ~Decodable(data)
    THEN Outcome(ToolError("Failed to create image resource"), <<"PILImage.open">>,
                 files, metadata, _blob_storage)
    ELSE LET content_type == MimeType(Ext(filename))
             image_format == IF content_type = None THEN "png"
                             ELSE FormatOfMime(Val(content_type))
             resized == _resize_image(data, image_format, max_width, max_height, quality)
             up == upload_blob(_get_blob_storage(_blob_storage), files, metadata, now,
                               resized.data, filename,
                               {"resource-server", "image"}, ttl_hours)
         IN  Outcome(Returned(ResourceResponse(up[1], up[3])),
                     <<"PILImage.open">> \o resized.steps
                         \o <<"_get_blob_storage", "upload_blob", "get_metadata">>,
                     up[2], up[3], _get_blob_storage(_blob_storage))

\* upload_image_resource after its quality check
upload_image_resource_body(data, filename, max_width, max_height, quality, ttl_hours) ==
    IF data = EmptyBytes
    THEN Outcome(ToolError("data is required and cannot be empty"), <<>>,
                 files, metadata, _blob_storage)
    ELSE IF filename = ""
    THEN Outcome(ToolError("filename is required"), <<>>, files, metadata, _blob_storage)
    ELSE IF ~Decodable(data)
    THEN Outcome(ToolError("Failed to create image resource"), <<"PILImage.open">>,
                 files, metadata, _blob_storage)
    ELSE LET resized == _resize_image(data, data.format, max_width, max_height, quality)
             up == upload_blob(_get_blob_storage(_blob_storage), files, metadata, now,
                               resized.data, filename,
                               {"resource-server", "image"}, ttl_hours)
         IN  Outcome(Returned(ResourceResponse(up[1], up[3])),
                     <<"PILImage.open">> \o resized.steps
                         \o <<"_get_blob_storage", "upload_blob", "get_metadata">>,
                     up[2], up[3], _get_blob_storage(_blob_storage))

upload_image_resource_always_encoding(data, filename, max_width, max_height, quality, ttl_hours) ==
    IF _validate_quality(quality) # "ok" \/ data = EmptyBytes \/ filename = ""
          \/ ~Decodable(data)
    THEN upload_image_resource_body(data, filename, max_width, max_height,
                                    quality, ttl_hours)
    ELSE LET resized == _resize_image_always_encoding(data, data.format, max_width,
                                                      max_height, quality)
             up == upload_blob(_get_blob_storage(_blob_storage), files, metadata, now,
                               resized.data, filename,
                               {"resource-server", "image"}, ttl_hours)
         IN  Outcome(Returned(ResourceResponse(up[1], up[3])),
                     <<"PILImage.open">> \o resized.steps
                         \o <<"_get_blob_storage", "upload_blob", "get_metadata">>,
                     up[2], up[3], _get_blob_storage(_blob_storage))

upload_image_resource(data, filename, max_width, max_height, quality, ttl_hours) ==
    IF _validate_quality(quality) # "ok"
    THEN Outcome(ToolError(_validate_quality(quality)), <<>>,
                 files, metadata, _blob_storage)
    ELSE upload_image_resource_body(data, filename, max_width, max_height,
                                    quality, ttl_hours)

upload_file_resource_validating_late(data, filename, ttl_hours) ==
    IF data = EmptyBytes
    THEN Outcome(ToolError("data is required and cannot be empty"), <<"_get_blob_storage">>,
                 files, metadata, _get_blob_storage(_blob_storage))
    ELSE IF filename = ""
    THEN Outcome(ToolError("filename is required"), <<"_get_blob_storage">>,
                 files, metadata, _get_blob_storage(_blob_storage))
    ELSE LET up == upload_blob(_get_blob_storage(_blob_storage), files, metadata, now,
                               data, filename, {"resource-server", "file"}, ttl_hours)
         IN  Outcome(Returned(ResourceResponse(up[1], up[3])),
                     <<"_get_blob_storage", "upload_blob", "get_metadata">>,
                     up[2], up[3], _get_blob_storage(_blob_storage))

upload_file_resource(data, filename, ttl_hours) ==
    IF data = EmptyBytes
    THEN Outcome(ToolError("data is required and cannot be empty"), <<>>,
                 files, metadata, _blob_storage)
    ELSE IF filename = ""
    THEN Outcome(ToolError("filename is required"), <<>>, files, metadata, _blob_storage)
    ELSE LET up == upload_blob(_get_blob_storage(_blob_storage), files, metadata, now,
                               data, filename, {"resource-server", "file"}, ttl_hours)
         IN  Outcome(Returned(ResourceResponse(up[1], up[3])),
                     <<"_get_blob_storage", "upload_blob", "get_metadata">>,
                     up[2], up[3], _get_blob_storage(_blob_storage))

(***************************************************************************)
(* Spec: the resource operations, called one after another on one store.   *)
(***************************************************************************)
\* The identifiers a caller may pass: none, a malformed one, one that was
\* never stored, and those of the stored blobs
BlobIds == {EmptyId, MalformedId, GhostId} \cup DOMAIN files \cup DOMAIN metadata

Init ==
    /\ pc = "idle"
    /\ call = [op |-> "none"]
    /\ ret = Returned(NoValue)
    /\ effects = <<>>
    /\ EmptyStore

\* The handler runs from its first line to its return or raise: its outcome
\* becomes the state
FinishWithin(invocation, outcome, blobs) ==
    /\ pc = "idle"
    /\ Cardinality(DOMAIN outcome.files) <= blobs
    /\ pc' = "done"
    /\ call' = invocation
    /\ ret' = outcome.ret
    /\ effects' = outcome.effects
    /\ files' = outcome.files
    /\ metadata' = outcome.metadata
    /\ _blob_storage' = outcome.storage
    /\ UNCHANGED now

Finish(invocation, outcome) == FinishWithin(invocation, outcome, MaxBlobs)

GetFile ==
    \E blob_id \in BlobIds :
        Finish([op |-> "get_file", blob_id |-> blob_id], get_file(blob_id))

GetImage ==
    \E blob_id \in BlobIds, b \in StoreBounds, quality \in StoreQualities :
        Finish([op |-> "get_image", blob_id |-> blob_id, max_width |-> b[1],
                max_height |-> b[2], quality |-> quality],
               get_image(blob_id, b[1], b[2], quality))

GetImageInfo ==
    \E blob_id \in BlobIds :
        Finish([op |-> "get_image_info", blob_id |-> blob_id], get_image_info(blob_id))

GetImageSizeEstimate ==
    \E blob_id \in BlobIds, b \in StoreBounds, quality \in StoreQualities :
        Finish([op |-> "get_image_size_estimate", blob_id |-> blob_id,
                max_width |-> b[1], max_height |-> b[2], quality |-> quality],
               get_image_size_estimate(blob_id, b[1], b[2], quality))

GetFileInfo ==
    \E blob_id \in BlobIds :
        Finish([op |-> "get_file_info", blob_id |-> blob_id], get_file_info(blob_id))

UploadImageResource ==
    \E data \in UploadData, filename \in UploadNames, b \in StoreBounds,
       quality \in StoreQualities, ttl_hours \in TtlHours :
        Finish([op |-> "upload_image_resource", data |-> data, filename |-> filename,
                max_width |-> b[1], max_height |-> b[2], quality |-> quality,
                ttl_hours |-> ttl_hours],
               upload_image_resource(data, filename, b[1], b[2], quality, ttl_hours))

UploadFileResource ==
    \E data \in UploadData, filename \in UploadNames, ttl_hours \in TtlHours :
        Finish([op |-> "upload_file_resource", data |-> data, filename |-> filename,
                ttl_hours |-> ttl_hours],
               upload_file_resource(data, filename, ttl_hours))

\* The tool wrapper hands the response to the caller; the next call may start
Return ==
    /\ pc = "done"
    /\ pc' = "idle"
    /\ call' = [op |-> "none"]
    /\ ret' = Returned(NoValue)
    /\ effects' = <<>>
    /\ UNCHANGED <<files, metadata, _blob_storage, now>>

\* Time passes between calls
Tick ==
    /\ pc = "idle"
    /\ now < MaxTime
    /\ now' = now + 1
    /\ UNCHANGED <<pc, call, ret, effects, files, metadata, _blob_storage>>

Next ==
    \/ GetFile
    \/ GetImage
    \/ GetImageInfo
    \/ GetImageSizeEstimate
    \/ GetFileInfo
    \/ UploadImageResource
    \/ UploadFileResource
    \/ Return
    \/ Tick

Spec == Init /\ [][Next]_vars

(***************************************************************************)
(* SpecDiverged: the read operations on a store whose volume and metadata  *)
(* may have diverged: after an upload, the blob's file, its metadata       *)
(* record, both or neither are still there.                                *)
(***************************************************************************)
DivergedData == {TextBytes, PngBytes, JpegBytes}

InitDiverged ==
    /\ pc = "idle"
    /\ call = [op |-> "none"]
    /\ ret = Returned(NoValue)
    /\ effects = <<>>
    /\ now = 0
    /\ \E data \in DivergedData, filename \in Filenames \ {""},
          file_kept \in BOOLEAN, record_kept \in BOOLEAN, storage_built \in BOOLEAN :
          LET up == upload_blob(_get_blob_storage(None), <<>>, <<>>, 0, data, filename,
                                {"resource-server", "file"}, None)
          IN  /\ files = IF file_kept THEN up[2] ELSE <<>>
              /\ metadata = IF record_kept THEN up[3] ELSE <<>>
              /\ _blob_storage = IF storage_built THEN _get_blob_storage(None) ELSE None

NextDiverged ==
    \/ GetFile
    \/ GetImage
    \/ GetImageInfo
    \/ GetImageSizeEstimate
    \/ GetFileInfo
    \/ Return

SpecDiverged == InitDiverged /\ [][NextDiverged]_vars

(***************************************************************************)
(* SpecDedup: uploads of a few contents under a few names, one after       *)
(* another, with room in the store for one blob more than Spec allows.     *)
(***************************************************************************)
DedupData == {PngBytes}
DedupNames == {"a.png", "c.txt", "e.png"}
DedupBounds == {<<None, None>>, <<Some(4), None>>}

StoreFile ==
    \E data \in DedupData, filename \in DedupNames, ttl_hours \in TtlHours :
        FinishWithin([op |-> "upload_file_resource", data |-> data,
                      filename |-> filename, ttl_hours |-> ttl_hours],
                     upload_file_resource(data, filename, ttl_hours), MaxBlobs + 1)

StoreImage ==
    \E data \in DedupData, filename \in DedupNames, b \in DedupBounds,
       ttl_hours \in TtlHours :
        FinishWithin([op |-> "upload_image_resource", data |-> data,
                      filename |-> filename, max_width |-> b[1], max_height |-> b[2],
                      quality |-> None, ttl_hours |-> ttl_hours],
                     upload_image_resource(data, filename, b[1], b[2], None, ttl_hours),
                     MaxBlobs + 1)

NextDedup ==
    \/ StoreFile
    \/ StoreImage
    \/ Return
    \/ Tick

SpecDedup == Init /\ [][NextDedup]_vars

(***************************************************************************)
(* SpecRoundTrip: the uploads of SpecDedup, each blob fetched back with    *)
(* get_file at any later time.                                             *)
(***************************************************************************)
FetchFile ==
    \E blob_id \in BlobIds :
        FinishWithin([op |-> "get_file", blob_id |-> blob_id], get_file(blob_id),
                     MaxBlobs + 1)

NextRoundTrip ==
    \/ StoreFile
    \/ StoreImage
    \/ FetchFile
    \/ Return
    \/ Tick

SpecRoundTrip == Init /\ [][NextRoundTrip]_vars

(***************************************************************************)
(* SpecDryRun: get_image_size_estimate and get_image on a store that holds *)
(* one image, of several formats and sizes and recorded under an image     *)
(* mime type, with every pair of bounds and every quality of the model.    *)
(***************************************************************************)
DryRunSizes == {<<1, 1>>, <<8, 6>>, <<12, 5>>, <<22, 10>>, <<2048, 2>>}
DryRunImages == {Bytes("img", format, size[1], size[2], 0, 2) :
                    format \in {"png", "jpeg"}, size \in DryRunSizes}
DryRunNames == {"a.png", "b.jpg"}
DryRunBounds == {None, Some(0), Some(4), Some(15), Some(1920)}
DryRunQualities == {None, Some(1), Some(50), Some(100)}

InitDryRun ==
    /\ pc = "idle"
    /\ call = [op |-> "none"]
    /\ ret = Returned(NoValue)
    /\ effects = <<>>
    /\ now = 0
    /\ \E data \in DryRunImages, filename \in DryRunNames, storage_built \in BOOLEAN :
          LET up == upload_blob(_get_blob_storage(None), <<>>, <<>>, 0, data, filename,
                                {"resource-server", "file"}, None)
          IN  /\ files = up[2]
              /\ metadata = up[3]
              /\ _blob_storage = IF storage_built THEN _get_blob_storage(None) ELSE None

EstimateImage ==
    \E blob_id \in DOMAIN files, max_width \in DryRunBounds, max_height \in DryRunBounds,
       quality \in DryRunQualities :
        Finish([op |-> "get_image_size_estimate", blob_id |-> blob_id,
                max_width |-> max_width, max_height |-> max_height, quality |-> quality],
               get_image_size_estimate(blob_id, max_width, max_height, quality))

FetchImage ==
    \E blob_id \in DOMAIN files, max_width \in DryRunBounds, max_height \in DryRunBounds,
       quality \in DryRunQualities :
        Finish([op |-> "get_image", blob_id |-> blob_id,
                max_width |-> max_width, max_height |-> max_height, quality |-> quality],
               get_image(blob_id, max_width, max_height, quality))

NextDryRun ==
    \/ EstimateImage
    \/ FetchImage
    \/ Return

SpecDryRun == InitDryRun /\ [][NextDryRun]_vars

(***************************************************************************)
(* SpecFormat: upload_image_resource of images of several formats under    *)
(* filenames whose extension agrees with the payload, disagrees with it,   *)
(* is not an image extension or is missing.                                *)
(***************************************************************************)
GifBytes == Bytes("img", "gif", 8, 6, 0, 4)
FormatData == {PngBytes, JpegBytes, GifBytes}
FormatNames == {"a.png", "b.jpg", "c.txt", "d"}
FormatQualities == {None, Some(50)}

UploadImage ==
    \E data \in FormatData, filename \in FormatNames, b \in StoreBounds,
       quality \in FormatQualities :
        FinishWithin([op |-> "upload_image_resource", data |-> data,
                      filename |-> filename, max_width |-> b[1], max_height |-> b[2],
                      quality |-> quality, ttl_hours |-> None],
                     upload_image_resource(data, filename, b[1], b[2], quality, None),
                     MaxBlobs + 1)

NextFormat ==
    \/ UploadImage
    \/ Return

SpecFormat == Init /\ [][NextFormat]_vars

(***************************************************************************)
(* SpecSingleton: concurrent first calls of _get_blob_storage.  Each       *)
(* thread runs the function a step at a time: the test of the global, the  *)
(* construction, the assignment to the global, the read of the global for  *)
(* the return; the steps of the threads interleave.  Here pc, call and ret *)
(* hold one entry per thread (position, instance under construction,       *)
(* instance returned) and effects lists the instances constructed.         *)
(***************************************************************************)
MaxThreads == 3
Threads == 1 .. MaxThreads

\* The instance the constructor call of thread t makes
NewBlobStorage(t) ==
    Some([default_ttl_hours |-> BLOB_STORAGE_TTL_HOURS, enable_deduplication |-> TRUE,
          constructed_by |-> t])

InitSingleton ==
    /\ pc = [t \in Threads |-> "if _blob_storage is None"]
    /\ call = [t \in Threads |-> None]
    /\ ret = [t \in Threads |-> None]
    /\ effects = <<>>
    /\ EmptyStore

\* if _blob_storage is None:
TestGlobal(t) ==
    /\ pc[t] = "if _blob_storage is None"
    /\ pc' = [pc EXCEPT ![t] = IF _blob_storage = None THEN "BlobStorage(...)"
                                ELSE "return _blob_storage"]
    /\ UNCHANGED <<call, ret, effects, files, metadata, _blob_storage, now>>

\* BlobStorage(storage_root=..., ..., enable_deduplication=True)
Construct(t) ==
    /\ pc[t] = "BlobStorage(...)"
    /\ call' = [call EXCEPT ![t] = NewBlobStorage(t)]
    /\ effects' = Append(effects, NewBlobStorage(t))
    /\ pc' = [pc EXCEPT ![t] = "_blob_storage = ..."]
    /\ UNCHANGED <<ret, files, metadata, _blob_storage, now>>

\* _blob_storage = <the new instance>
AssignGlobal(t) ==
    /\ pc[t] = "_blob_storage = ..."
    /\ _blob_storage' = call[t]
    /\ pc' = [pc EXCEPT ![t] = "return _blob_storage"]
    /\ UNCHANGED <<call, ret, effects, files, metadata, now>>

\* return _blob_storage
ReturnGlobal(t) ==
    /\ pc[t] = "return _blob_storage"
    /\ ret' = [ret EXCEPT ![t] = _blob_storage]
    /\ pc' = [pc EXCEPT ![t] = "returned"]
    /\ UNCHANGED <<call, effects, files, metadata, _blob_storage, now>>

NextSingleton ==
    \/ \E t \in Threads : TestGlobal(t)
    \/ \E t \in Threads : Construct(t)
    \/ \E t \in Threads : AssignGlobal(t)
    \/ \E t \in Threads : ReturnGlobal(t)

SpecSingleton == InitSingleton /\ [][NextSingleton]_vars

(***************************************************************************)
(* Properties of the resource operations (under Spec).                     *)
(***************************************************************************)
QualityCheckedOps == {"get_image", "get_image_size_estimate", "upload_image_resource"}

\* The call that has just returned was given a quality outside 1..100
BadQualityCall(c) ==
    /\ c.op \in QualityCheckedOps
    /\ c.quality # None
    /\ Val(c.quality) \notin 1 .. 100

\* C10: in get_image, get_image_size_estimate and upload_image_resource a
\* provided quality outside 1..100 fails with the quality error before any
\* blob read, decode, resize or upload, whatever the other arguments are,
\* and the store is left unchanged.
C10_QualityValidatedEagerly ==
    [][(pc' = "done" /\ pc = "idle" /\ BadQualityCall(call')) =>
          /\ ~ret'.ok
          /\ ret'.raised = "ToolError"
          /\ ret'.error = "quality must be between"
          /\ effects' = <<>>
          /\ files' = files
          /\ metadata' = metadata
          /\ _blob_storage' = _blob_storage]_vars

C10_Witness ==
    /\ pc = "done"
    /\ call.op = "upload_image_resource"
    /\ call.quality = Some(101)
    /\ call.data = EmptyBytes
    /\ DOMAIN files # {}
    /\ ret.error = "quality must be between"
    /\ effects = <<>>

Steps(sequence) == {sequence[n] : n \in DOMAIN sequence}
QualityAccepted(c) ==
    c.op \notin QualityCheckedOps \/ c.quality = None \/ Val(c.quality) \in 1 .. 100

ImageReadOps == {"get_image", "get_image_info", "get_image_size_estimate"}
NotAnImageErrors == {"Blob is not an image", "File is not an image"}

\* The call reads a stored blob whose recorded mime type is missing or is
\* not an image/ type
NonImageBlob(c) ==
    /\ c.op \in ImageReadOps
    /\ c.blob_id \in DOMAIN files \cap DOMAIN metadata
    /\ metadata[c.blob_id].mime_type \in {None, Some("text/plain")}

ResizeImageDone == pc = "done" /\ call.op = "_resize_image"

\* C12: whenever _calculate_resize_dimensions returns would_resize = FALSE
\* for the decoded size, _resize_image returns the very input bytes, not
\* re-encoded, with the original width and height, for every format and quality.
C12_ResizeIdentity ==
    (/\ ResizeImageDone
     /\ ~_calculate_resize_dimensions(call.image_data.width, call.image_data.height,
                                      call.max_width, call.max_height)[3]) =>
        /\ ret = <<call.image_data, call.image_data.width, call.image_data.height>>
        /\ "img.save" \notin Steps(effects)

C12_Witness ==
    /\ ResizeImageDone
    /\ call.image_data.format = "jpeg"
    /\ call.image_format = "png"
    /\ call.quality = Some(50)
    /\ call.max_width = Some(1920) /\ call.max_height = None
    /\ call.image_data.width = 1920 /\ call.image_data.height = 1080
    /\ ret = <<call.image_data, 1920, 1080>>

(***************************************************************************)
(* Properties of _estimate_compressed_size (under SpecEstimate).           *)
(***************************************************************************)
EstimateDone == pc = "done" /\ call.op = "_estimate_compressed_size"

\* C13: _estimate_compressed_size never returns less than 100, for every
\* original size, all original and new dimensions (zero original pixels
\* included), every format and every quality.
C13_EstimateAtLeast100 ==
    EstimateDone => (Val(ret) \in Int /\ Val(ret) >= 100)

C13_Witness ==
    /\ EstimateDone
    /\ call.original_size = 4096
    /\ call.original_width = 0
    /\ call.new_width = 3 /\ call.new_height = 3
    /\ call.image_format = "JPG"
    /\ call.quality = Some(1)
    /\ ret = Some(100)

(***************************************************************************)
(* Properties of the uploads' argument checks (under Spec).                *)
(***************************************************************************)
UploadOps == {"upload_file_resource", "upload_image_resource"}
EmptyUpload(c) == c.op \in UploadOps /\ (c.data = EmptyBytes \/ c.filename = "")
MissingArgumentError(c) ==
    IF c.data = EmptyBytes THEN "data is required and cannot be empty"
    ELSE "filename is required"
ValidationErrors ==
    {"data is required and cannot be empty", "filename is required",
     "quality must be between"}

\* C14 (as amended): upload_file_resource and upload_image_resource called
\* with empty data or an empty filename fail with a validation ToolError,
\* which names the missing argument, or is the quality error when
\* upload_image_resource is also given a quality outside 1..100, never with a
\* wrapped storage error, before the blob store is obtained or upload_blob is
\* called, and the store is unchanged.
C14_EmptyUploadRejected ==
    [][(pc = "idle" /\ pc' = "done" /\ EmptyUpload(call')) =>
          /\ ~ret'.ok
          /\ ret'.raised = "ToolError"
          /\ ret'.error \in ValidationErrors
          /\ QualityAccepted(call') => ret'.error = MissingArgumentError(call')
          /\ ~QualityAccepted(call') => ret'.error = "quality must be between"
          /\ effects' = <<>>
          /\ files' = files
          /\ metadata' = metadata
          /\ _blob_storage' = _blob_storage]_vars

\* C14 (as stated): every such call fails with the ToolError that names the
\* missing argument, before the blob store is obtained, the store unchanged.
C14_AlwaysNamesMissingArgument ==
    [][(pc = "idle" /\ pc' = "done" /\ EmptyUpload(call')) =>
          /\ ~ret'.ok
          /\ ret'.raised = "ToolError"
          /\ ret'.error = MissingArgumentError(call')
          /\ effects' = <<>>
          /\ files' = files
          /\ metadata' = metadata
          /\ _blob_storage' = _blob_storage]_vars

C14_Witness ==
    /\ pc = "done"
    /\ call.op = "upload_file_resource"
    /\ call.data = PngBytes
    /\ call.filename = ""
    /\ ret.error = "filename is required"
    /\ effects = <<>>
    /\ _blob_storage = None

(***************************************************************************)
(* Properties of the read errors (under SpecDiverged).                     *)
(***************************************************************************)
BlobReadOps == {"get_file", "get_image", "get_image_info", "get_image_size_estimate"}
ThroughBlobRead(c) == c.op \in BlobReadOps /\ QualityAccepted(c)
InvalidKind == {"Invalid blob:// URI format"}
NotFoundKind == {"Blob not found in storage", "Blob file missing from shared volume"}
Malformed(blob_id) == ~WellFormed(blob_id)
Absent(blob_id) ==
    /\ blob_id.scheme = "blob"
    /\ (blob_id \notin DOMAIN files \/ blob_id \notin DOMAIN metadata)

\* C15 (as amended): through _get_blob_bytes an empty blob_id yields the
\* "blob_id is required" error, every other malformed blob_id yields the
\* "Invalid blob" error, and a well-formed blob_id whose file or metadata
\* record is absent yields a "not found" / "missing" error; the "Invalid
\* blob" kind is never produced for a well-formed id nor a "not found" /
\* "missing" kind for a malformed one.
C15_ReadErrorsDistinguishable ==
    (pc = "done" /\ ThroughBlobRead(call)) =>
        /\ call.blob_id = EmptyId =>
              (~ret.ok /\ ret.raised = "ToolError" /\ ret.error = "blob_id is required")
        /\ (Malformed(call.blob_id) /\ call.blob_id # EmptyId) =>
              (~ret.ok /\ ret.error \in InvalidKind)
        /\ Absent(call.blob_id) => (~ret.ok /\ ret.error \in NotFoundKind)
        /\ ret.error \in InvalidKind => Malformed(call.blob_id)
        /\ ret.error \in NotFoundKind => Absent(call.blob_id)

\* C15 (as stated): every malformed blob_id yields the "Invalid blob" error,
\* every well-formed blob_id whose file or record is absent a "not found" /
\* "missing" error, and neither kind is produced for the other case.
C15_MalformedAlwaysInvalid ==
    (pc = "done" /\ ThroughBlobRead(call)) =>
        /\ Malformed(call.blob_id) => (~ret.ok /\ ret.error \in InvalidKind)
        /\ Absent(call.blob_id) => (~ret.ok /\ ret.error \in NotFoundKind)
        /\ ret.error \in InvalidKind => Malformed(call.blob_id)
        /\ ret.error \in NotFoundKind => Absent(call.blob_id)

C15_Witness ==
    /\ pc = "done"
    /\ call.op = "get_image"
    /\ call.blob_id \in DOMAIN files
    /\ call.blob_id \notin DOMAIN metadata
    /\ ret.raised = "ToolError"
    /\ ret.error = "Blob not found in storage"

(***************************************************************************)
(* Properties of the errors that reach the caller (under Spec).            *)
(***************************************************************************)
ResourceOps ==
    {"get_file", "get_image", "get_image_info", "get_image_size_estimate",
     "get_file_info", "upload_file_resource", "upload_image_resource"}

\* C16: every failure of get_file, get_image, get_image_info,
\* get_image_size_estimate, get_file_info, upload_file_resource and
\* upload_image_resource reaches the caller as a ToolError carrying a
\* message, also for a stored blob with an image/ mime type whose bytes
\* cannot be decoded.
C16_OnlyToolErrors ==
    (pc = "done" /\ call.op \in ResourceOps /\ ~ret.ok) =>
        (ret.raised = "ToolError" /\ ret.error # "")

(***************************************************************************)
(* Properties of deduplication (under SpecDedup).                          *)
(***************************************************************************)
Uploaded == pc = "idle" /\ pc' = "done" /\ call'.op \in UploadOps /\ ret'.ok

\* The blobs stored before this upload with the bytes it stores and its extension
EarlierUploads ==
    {old \in DOMAIN metadata : /\ metadata[old].sha256 = ret'.value.sha256
                               /\ old.ext = Ext(call'.filename)}

\* Those of them that have not expired when this upload is made
UnexpiredEarlierUploads == {old \in EarlierUploads : now < metadata[old].expires_at}

\* C17 (as amended): an upload of bytes that were uploaded before with the
\* same extension, made before the earlier blob expires, returns the
\* blob_id of the earlier upload and leaves the stored blobs and the
\* metadata records as they were; after the upload there is exactly one
\* unexpired blob and record for that content and extension, the one the
\* upload returns.
C17_Deduplication ==
    [][Uploaded =>
          /\ \A old \in UnexpiredEarlierUploads :
                /\ ret'.value.resource_id = old
                /\ files' = files
                /\ metadata' = metadata
          /\ DOMAIN files' = DOMAIN metadata'
          /\ {id \in DOMAIN metadata' :
                 /\ metadata'[id].sha256 = ret'.value.sha256
                 /\ id.ext = Ext(call'.filename)
                 /\ now' < metadata'[id].expires_at} = {ret'.value.resource_id}]_vars

\* C17 (as stated): an upload of bytes that were uploaded before with the
\* same extension returns the blob_id of the earlier upload and leaves the
\* stored blobs and the metadata records as they were; there is exactly one
\* blob and one record for that content and extension.
C17_AlwaysSameBlobId ==
    [][Uploaded =>
          /\ \A old \in EarlierUploads :
                /\ ret'.value.resource_id = old
                /\ files' = files
                /\ metadata' = metadata
          /\ DOMAIN files' = DOMAIN metadata'
          /\ Cardinality({id \in DOMAIN metadata' :
                             /\ metadata'[id].sha256 = ret'.value.sha256
                             /\ id.ext = Ext(call'.filename)}) = 1]_vars

C17_Witness ==
    /\ pc = "done"
    /\ call.op = "upload_file_resource"
    /\ call.data = PngBytes
    /\ ret.ok
    /\ ret.value.resource_id.ts < now
    /\ files[ret.value.resource_id] = PngBytes
    /\ now < metadata[ret.value.resource_id].expires_at
    /\ Cardinality(DOMAIN metadata) = 1

\* The image upload just made was of an image that needs no resize under
\* the bounds it was given
UploadedFittingImage ==
    /\ Uploaded
    /\ call'.op = "upload_image_resource"
    /\ ~_calculate_resize_dimensions(call'.data.width, call'.data.height,
                                     call'.max_width, call'.max_height)[3]

\* C20 (as amended): when an image needs no resize under the given bounds,
\* upload_image_resource stores bytes identical to the input and returns the
\* blob_id that upload_file_resource returns for the same bytes and filename;
\* repeated before the earlier blob expires, the upload returns the blob_id
\* of the earlier upload and adds no record.
C20_FittingImageUploadIdempotent ==
    [][UploadedFittingImage =>
          /\ files'[ret'.value.resource_id] = call'.data
          /\ ret'.value.sha256 = sha256(call'.data)
          /\ ret'.value.resource_id =
                upload_file_resource(call'.data, call'.filename,
                                     call'.ttl_hours).ret.value.resource_id
          /\ \A old \in DOMAIN metadata :
                (metadata[old].sha256 = sha256(call'.data)
                    /\ old.ext = Ext(call'.filename)
                    /\ now < metadata[old].expires_at)
                => (ret'.value.resource_id = old /\ metadata' = metadata)]_vars

\* C20 (as stated): when an image needs no resize under the given bounds,
\* upload_image_resource stores bytes identical to the input and returns the
\* blob_id that upload_file_resource returns for the same bytes and filename;
\* repeated, the upload returns the blob_id of the earlier upload.
C20_RepeatAlwaysSameBlobId ==
    [][UploadedFittingImage =>
          /\ files'[ret'.value.resource_id] = call'.data
          /\ ret'.value.sha256 = sha256(call'.data)
          /\ ret'.value.resource_id =
                upload_file_resource(call'.data, call'.filename,
                                     call'.ttl_hours).ret.value.resource_id
          /\ \A old \in DOMAIN metadata :
                (metadata[old].sha256 = sha256(call'.data)
                    /\ old.ext = Ext(call'.filename))
                => (ret'.value.resource_id = old /\ metadata' = metadata)]_vars

C20_Witness ==
    /\ pc = "done"
    /\ call.op = "upload_image_resource"
    /\ call.data = PngBytes
    /\ call.max_width = None /\ call.max_height = None
    /\ ret.ok
    /\ ret.value.resource_id.ts < now
    /\ files[ret.value.resource_id] = PngBytes
    /\ now < metadata[ret.value.resource_id].expires_at
    /\ metadata[ret.value.resource_id].tags = {"resource-server", "file"}

(***************************************************************************)
(* Properties of the upload response (under SpecDedup).                    *)
(***************************************************************************)
UploadReturned == pc = "done" /\ call.op \in UploadOps /\ ret.ok
Count(sequence, step) == Cardinality({n \in DOMAIN sequence : sequence[n] = step})

\* C21: a successful upload_file_resource / upload_image_resource response
\* carries the resource_id and the sha256 of the upload result, and the
\* filename, mime_type, size_bytes and expires_at of the metadata record of
\* that blob_id, fetched by exactly one get_metadata call made after
\* upload_blob; expires_at is the record's expires_at, never its created_at.
C21_ResponseFromResultAndMetadata ==
    UploadReturned =>
        LET r == ret.value.resource_id
        IN  /\ r \in DOMAIN metadata \cap DOMAIN files
            /\ metadata[r].blob_id = r
            /\ ret.value.sha256 = sha256(files[r])
            /\ ret.value.sha256 = r.hash
            /\ ret.value.filename = metadata[r].filename
            /\ ret.value.mime_type = metadata[r].mime_type
            /\ ret.value.size_bytes = metadata[r].size_bytes
            /\ ret.value.expires_at = metadata[r].expires_at
            /\ ret.value.expires_at # metadata[r].created_at
            /\ Count(effects, "get_metadata") = 1
            /\ Count(effects, "upload_blob") = 1
            /\ effects[Len(effects)] = "get_metadata"
            /\ effects[Len(effects) - 1] = "upload_blob"

\* A deduplicated upload under another name: the response carries the
\* filename of the record, not the filename of the call
C21_Witness ==
    /\ UploadReturned
    /\ call.op = "upload_image_resource"
    /\ call.filename = "e.png"
    /\ ret.value.filename = "a.png"
    /\ ret.value.resource_id.ts < now
    /\ ret.value.expires_at = ret.value.resource_id.ts + BLOB_STORAGE_TTL_HOURS
    /\ ret.value.size_bytes = Size(files[ret.value.resource_id])

(***************************************************************************)
(* Properties of the store/fetch round trip (under SpecRoundTrip).         *)
(***************************************************************************)
FileUploadReturned == UploadReturned /\ call.op = "upload_file_resource"

\* Every stored blob is still stored after the step, with the same bytes and
\* the same metadata record
StoredBlobsKept ==
    /\ \A id \in DOMAIN files : id \in DOMAIN files' /\ files'[id] = files[id]
    /\ \A id \in DOMAIN metadata : id \in DOMAIN metadata' /\ metadata'[id] = metadata[id]

\* C22: store/fetch round trip: when upload_file_resource of non-empty data
\* under a non-empty filename returns resource_id r, get_file(r) returns
\* exactly data, right after the upload and after every later operation (no
\* operation removes or rewrites a stored blob; there is no sweep).
C22_RoundTrip ==
    /\ [](FileUploadReturned =>
             /\ call.data # EmptyBytes /\ call.filename # ""
             /\ get_file(ret.value.resource_id).ret = Returned(call.data))
    /\ []((pc = "done" /\ call.op = "get_file" /\ call.blob_id \in DOMAIN metadata) =>
             ret = Returned(files[call.blob_id]))
    /\ [][StoredBlobsKept]_vars

C22_Witness ==
    /\ pc = "done"
    /\ call.op = "get_file"
    /\ ret = Returned(PngBytes)
    /\ call.blob_id.ts < now
    /\ metadata[call.blob_id].tags = {"resource-server", "file"}
    /\ metadata[call.blob_id].filename = "e.png"
    /\ Cardinality(DOMAIN files) = 2

(***************************************************************************)
(* Properties of the dry run (under SpecDryRun).                           *)
(***************************************************************************)
EstimateReturned == pc = "done" /\ call.op = "get_image_size_estimate" /\ ret.ok
ImageReturned == pc = "done" /\ call.op = "get_image" /\ ret.ok

\* What get_image and get_image_size_estimate do with the arguments of the
\* call that has just returned
SameCallToGetImage ==
    get_image(call.blob_id, call.max_width, call.max_height, call.quality)
SameCallToEstimate ==
    get_image_size_estimate(call.blob_id, call.max_width, call.max_height, call.quality)
Resized(outcome) == "img.resize" \in Steps(outcome)

\* C23: the dry run predicts the real resize: for every image blob and every
\* (max_width, max_height), the estimated_width, estimated_height and
\* would_resize that get_image_size_estimate reports are the width and the
\* height of the image get_image returns with the same parameters and
\* whether get_image resized it.
C23_DryRunPredictsResize ==
    /\ EstimateReturned =>
          /\ SameCallToGetImage.ret.ok
          /\ ret.value.estimated_width = SameCallToGetImage.ret.value.data.width
          /\ ret.value.estimated_height = SameCallToGetImage.ret.value.data.height
          /\ ret.value.would_resize = Resized(SameCallToGetImage.effects)
    /\ ImageReturned =>
          /\ SameCallToEstimate.ret.ok
          /\ SameCallToEstimate.ret.value.estimated_width = ret.value.data.width
          /\ SameCallToEstimate.ret.value.estimated_height = ret.value.data.height
          /\ SameCallToEstimate.ret.value.would_resize = Resized(effects)

C23_Witness ==
    /\ EstimateReturned
    /\ files[call.blob_id].width = 22 /\ files[call.blob_id].height = 10
    /\ call.max_width = Some(15) /\ call.max_height = Some(1920)
    /\ ret.value.estimated_width = 14 /\ ret.value.estimated_height = 6
    /\ ret.value.would_resize
    /\ SameCallToGetImage.ret.value.data.width = 14
    /\ SameCallToGetImage.ret.value.data.height = 6

(***************************************************************************)
(* Properties of the format of an uploaded image (under SpecFormat).       *)
(***************************************************************************)
ImageUploaded == Uploaded /\ call'.op = "upload_image_resource"

\* The same upload under another filename, from the state the upload started in
SameUploadNamed(filename) ==
    upload_image_resource(call'.data, filename, call'.max_width, call'.max_height,
                          call'.quality, call'.ttl_hours)

\* C24: upload_image_resource chooses the image format from the payload
\* only: for the same data, bounds and quality, calls that differ only in
\* the filename feed byte-identical resized data to the blob store, in the
\* format of the payload whatever the extension of the filename is.
C24_FormatFromPayload ==
    [][ImageUploaded =>
          /\ files'[ret'.value.resource_id] =
                _resize_image(call'.data, call'.data.format, call'.max_width,
                              call'.max_height, call'.quality).data
          /\ files'[ret'.value.resource_id].format = call'.data.format
          /\ \A filename \in FormatNames :
                LET other == SameUploadNamed(filename)
                IN  /\ other.ret.ok
                    /\ other.ret.value.sha256 = ret'.value.sha256
                    /\ other.files[other.ret.value.resource_id] =
                          files'[ret'.value.resource_id]]_vars

C24_Witness ==
    /\ UploadReturned
    /\ call.op = "upload_image_resource"
    /\ call.data = PngBytes
    /\ call.filename = "b.jpg"
    /\ call.max_width = Some(4)
    /\ call.quality = Some(50)
    /\ ret.value.mime_type = Some("image/jpeg")
    /\ files[ret.value.resource_id] = Bytes("img", "png", 4, 3, 1, 2)

(***************************************************************************)
(* Properties of the shared store handle (under SpecSingleton).            *)
(***************************************************************************)
\* C25: the shared store handle is a true singleton under concurrency: for
\* every interleaving of concurrent first calls to _get_blob_storage at most
\* one BlobStorage instance is ever constructed (exactly one once a call
\* has returned) and every caller receives that same instance.
C25_TrueSingleton ==
    /\ Len(effects) <= 1
    /\ \A t \in Threads :
          pc[t] = "returned" => (Len(effects) = 1 /\ ret[t] = effects[1])

(***************************************************************************)
(* Properties of the estimated size (under SpecDryRun).                    *)
(***************************************************************************)
\* C26: when get_image_size_estimate reports would_resize = FALSE, its
\* estimated_size_bytes equals its original_size_bytes, for every format and
\* every quality (get_image returns the original bytes in that case).
C26_NoResizeKeepsSize ==
    (EstimateReturned /\ ~ret.value.would_resize) =>
        /\ ret.value.estimated_size_bytes = ret.value.original_size_bytes
        /\ ret.value.original_size_bytes = Size(SameCallToGetImage.ret.value.data)

(***************************************************************************)
(* More properties of _calculate_resize_dimensions (under SpecResize).     *)
(***************************************************************************)
\* C27: for every original size with both sides >= 1 and every combination
\* of bounds (omitted, 0 or positive), the returned size satisfies
\* 1 <= new_w <= orig_w and 1 <= new_h <= orig_h, and would_resize is TRUE
\* exactly when (new_w, new_h) differs from (orig_w, orig_h).
C27_WithinOriginal ==
    ResizeDone =>
        /\ 1 <= ret[1] /\ ret[1] <= ow
        /\ 1 <= ret[2] /\ ret[2] <= oh
        /\ ret[3] <=> (<<ret[1], ret[2]>> # <<ow, oh>>)

C27_Witness ==
    /\ ResizeDone
    /\ ow = 2048 /\ oh = 2
    /\ mw = Some(4) /\ mh = Some(0)
    /\ ret = <<4, 1, TRUE>>

\* C28: _calculate_resize_dimensions is idempotent: applied again with the
\* same bounds to the size it returned, it returns that size with
\* would_resize = FALSE.
C28_Idempotent ==
    ResizeDone =>
        _calculate_resize_dimensions(ret[1], ret[2], mw, mh) = <<ret[1], ret[2], FALSE>>

C28_Witness ==
    /\ ResizeDone
    /\ ow = 2048 /\ oh = 1536
    /\ mw = Some(1024) /\ mh = Some(1024)
    /\ ret = <<1024, 768, TRUE>>
    /\ _calculate_resize_dimensions(1024, 768, mw, mh) = <<1024, 768, FALSE>>

(***************************************************************************)
(* Properties of the read operations' effect on the store (under           *)
(* SpecDiverged).                                                          *)
(***************************************************************************)
ReadOps == BlobReadOps \cup {"get_file_info"}
ReadDone == pc = "idle" /\ pc' = "done" /\ call'.op \in ReadOps
StoredBytes == {files[id] : id \in DOMAIN files}

\* C29: read operations leave the store unchanged: over every step of
\* get_file, get_image, get_image_info, get_image_size_estimate and
\* get_file_info, successful or failing, and so over every sequence of them,
\* the set of stored blobs, their bytes and their metadata records stay as
\* they were; in particular get_image does not persist the resized bytes.
C29_ReadsLeaveStoreUnchanged ==
    [][/\ ReadDone => (files' = files /\ metadata' = metadata)
       /\ files' = files
       /\ metadata' = metadata]_vars

C29_Witness ==
    /\ pc = "done"
    /\ call.op = "get_image"
    /\ ret.ok
    /\ "img.save" \in Steps(effects)
    /\ ret.value.data \notin StoredBytes
    /\ files[call.blob_id] = JpegBytes
    /\ _blob_storage # None

(***************************************************************************)
(* Properties of get_image with resizing disabled (under SpecDryRun).      *)
(***************************************************************************)
UnresizedCall ==
    /\ pc = "done"
    /\ call.op = "get_image"
    /\ call.max_width = Some(0)
    /\ call.max_height = Some(0)

\* C30: for every stored, decodable image blob, get_image with max_width = 0
\* and max_height = 0 returns data byte-identical to what get_file returns
\* for the same blob_id, for every quality in 1..100 or omitted.
C30_UnresizedIsGetFile ==
    (UnresizedCall /\ QualityAccepted(call)) =>
        /\ ret.ok
        /\ get_file(call.blob_id).ret.ok
        /\ ret.value.data = get_file(call.blob_id).ret.value
        /\ "img.save" \notin Steps(effects)

C30_Witness ==
    /\ UnresizedCall
    /\ call.quality = Some(50)
    /\ files[call.blob_id].width = 2048
    /\ files[call.blob_id].format = "png"
    /\ metadata[call.blob_id].mime_type = Some("image/jpeg")
    /\ ret.value.data = files[call.blob_id]
    /\ ret.value.format = "jpeg"

====
